---- MODULE Spec2Model ----
(***************************************************************************)
(* ESP-NOW diagnostic receiver (fixed-length test mode).                   *)
(*                                                                         *)
(* The module models src/src/DiagnosticReceiver.cpp: the file-scope        *)
(* statics are the variables, diagnosticReceiverOnPing and                 *)
(* diagnosticReceiverLoop are the actions, the millisecond clock and the   *)
(* serial input buffer are the environment.                                *)
(*                                                                         *)
(* A uint32_t (the three counters and the sequence numbers) is a pair      *)
(* <<hi, lo>> of 16-bit halves, so that its arithmetic is exactly the      *)
(* arithmetic modulo 2^32 of the target.  Times are plain numbers of       *)
(* milliseconds: on the Timeline the 32-bit millisecond clock has not      *)
(* wrapped, and now - then is the unsigned difference.                     *)
(*                                                                         *)
(* Spec is the program with the receive callback serialized with the loop. *)
(* SpecLive adds the fairness of the host loop and of the clock, SpecRace  *)
(* lets the callback run between the statements of the loop, SpecBurst     *)
(* feeds longer runs of packets and SpecKeys more typed-ahead characters.  *)
(***************************************************************************)
EXTENDS Integers, Sequences, FiniteSets, TLC

\* ------------------------------------------------------------------------
\* Program constants (DiagnosticReceiver.h)
\* ------------------------------------------------------------------------
PING_MAGIC == 170
SIGNAL_TIMEOUT_MS == 3000
HEARTBEAT_INTERVAL_MS == 60000
TEST_PACKET_COUNT == 10000
TEST_END_TIMEOUT_MS == 10000

\* sizeof(PingMessage) under #pragma pack(1): 1 + 4 + 4 bytes
PingMessageSize == 9

\* a uint32_t is two halves of 16 bits
Half == 2 ^ 16

\* ------------------------------------------------------------------------
\* Bounds of the model
\* ------------------------------------------------------------------------
\* accepted packets per run
MaxPackets == 2
\* characters the serial receive buffer holds
MaxSerial == 1
\* accepted packets of a burst
MaxBurst == 4
\* characters the operator types ahead
MaxKeys == 2

\* ------------------------------------------------------------------------
\* 32-bit arithmetic
\* ------------------------------------------------------------------------
\* the uint32_t of a number below 2^31
U32(n) == << n \div Half, n % Half >>

UINT32_MAX == << Half - 1, Half - 1 >>
Zero == U32(0)
One == U32(1)

Add32(x, y) ==
    LET lo == x[2] + y[2]
        hi == x[1] + y[1] + (lo \div Half)
    IN  << hi % Half, lo % Half >>

Sub32(x, y) ==
    LET lo == x[2] - y[2]
        hi == x[1] - y[1] - (IF lo < 0 THEN 1 ELSE 0)
    IN  << (hi + Half) % Half, (lo + Half) % Half >>

Lt32(x, y) == x[1] < y[1] \/ (x[1] = y[1] /\ x[2] < y[2])
Gt32(x, y) == Lt32(y, x)
Ge32(x, y) == ~Lt32(x, y)

\* ------------------------------------------------------------------------
\* Wire format: PingMessage is a packed struct read through a pointer cast
\* on a little-endian target
\* ------------------------------------------------------------------------
Byte == 2 ^ 8

LE32(x) == << x[2] % Byte, x[2] \div Byte, x[1] % Byte, x[1] \div Byte >>

\* the uint32_t stored at byte offset off of data
ReadU32(data, off) ==
    << data[off + 3] + Byte * data[off + 4], data[off + 1] + Byte * data[off + 2] >>

\* the bytes a transmitter sends for one ping
PingFrame(seq, uptime) == << PING_MAGIC >> \o LE32(seq) \o LE32(uptime)

\* ping->magic and ping->sequenceNumber of the frame the pointer is cast to
PingMagic(data) == data[1]
PingSequenceNumber(data) == ReadU32(data, 1)

\* (variant: the marker byte is not looked at)
ValidPing_SizeOnly(data) == Len(data) = PingMessageSize

\* the two validation tests of diagnosticReceiverOnPing
ValidPing(data) ==
    /\ Len(data) = PingMessageSize
    /\ PingMagic(data) = PING_MAGIC

\* ------------------------------------------------------------------------
\* Inputs
\* ------------------------------------------------------------------------
SeqInputs == { U32(1), U32(2), U32(10), U32(TEST_PACKET_COUNT), UINT32_MAX }

GoodFrames == { PingFrame(s, U32(77)) : s \in SeqInputs }

BadFrames ==
    { SubSeq(PingFrame(U32(TEST_PACKET_COUNT), U32(77)), 1, 8),
      << 85 >> \o LE32(U32(TEST_PACKET_COUNT)) \o LE32(U32(77)) }

Frames == GoodFrames \cup BadFrames

ZeroMac == << 0, 0, 0, 0, 0, 0 >>
MacA == << 36, 10, 196, 0, 0, 1 >>
MacB == << 36, 10, 196, 0, 0, 2 >>
Macs == {MacA, MacB}

\* the values of millis() at which a handler runs: at the signal timeout, just
\* before and at the test-end timeout, and one heartbeat interval after the start
Timeline ==
    { 0, SIGNAL_TIMEOUT_MS, TEST_END_TIMEOUT_MS - 1, TEST_END_TIMEOUT_MS,
      HEARTBEAT_INTERVAL_MS }

Chars == {"R", "s", "x"}

VARIABLES
    totalReceived, totalMissed, signalLossEvents,
    lastSequenceNumber, lastPingTime, lastHeartbeatTime, testStartTime,
    signalLost, firstPingReceived, testComplete, summaryPrinted,
    transmitterMac, transmitterKnown,
    clock,      \* millis()
    serialIn,   \* bytes waiting in the serial receive buffer
    pc,         \* position of diagnosticReceiverLoop: "idle", "cmd", or a line
    loopNow,    \* the local variable now of diagnosticReceiverLoop
    out,        \* what the step that led here printed, as events
    last,       \* the step that led here and its input
    hist,       \* history of the run
    arrivals    \* the accepted sequence numbers in order of arrival, where recorded

tracker == << totalReceived, totalMissed, signalLossEvents,
              lastSequenceNumber, lastPingTime, lastHeartbeatTime, testStartTime,
              signalLost, firstPingReceived, testComplete, summaryPrinted,
              transmitterMac, transmitterKnown >>

vars == << totalReceived, totalMissed, signalLossEvents,
           lastSequenceNumber, lastPingTime, lastHeartbeatTime, testStartTime,
           signalLost, firstPingReceived, testComplete, summaryPrinted,
           transmitterMac, transmitterKnown,
           clock, serialIn, pc, loopNow, out, last, hist, arrivals >>

\* an event: its kind, a time in ms, a uint32_t
Event(t, x, y) == [type |-> t, ms |-> x, n |-> y]

\* a step: the operation, the command character it read ("" for none), the
\* length and first byte of the frame it was handed (NoByte when it was handed
\* none), and the sender of the frame when the frame was accepted
NoByte == 0 - 1
Step(o, c, l, m) == [op |-> o, cmd |-> c, len |-> l, magic |-> m, mac |-> ZeroMac]

\* ------------------------------------------------------------------------
\* diagnosticReceiverInit
\* ------------------------------------------------------------------------
Init ==
    /\ totalReceived = U32(0)
    /\ totalMissed = U32(0)
    /\ signalLossEvents = U32(0)
    /\ lastSequenceNumber = U32(0)
    /\ lastPingTime = 0
    /\ clock = 0
    /\ lastHeartbeatTime = clock
    /\ testStartTime = 0
    /\ signalLost = FALSE
    /\ firstPingReceived = FALSE
    /\ testComplete = FALSE
    /\ summaryPrinted = FALSE
    /\ transmitterMac = ZeroMac
    /\ transmitterKnown = FALSE
    /\ serialIn = << >>
    /\ pc = "idle"
    /\ loopNow = 0
    /\ out = << >>
    /\ last = Step("init", "", 0, NoByte)
    /\ hist = [n |-> 0, consec |-> TRUE, reset |-> FALSE, lost |-> 0]
    /\ arrivals = << >>

\* ------------------------------------------------------------------------
\* Decisions of the two handlers
\* ------------------------------------------------------------------------
\* (variant: the first packet is compared with the initial lastSequence too)
GapDetected_AlsoFirst(seq) == Gt32(seq, Add32(lastSequenceNumber, One))

\* _firstPingReceived && ping->sequenceNumber > _lastSequenceNumber + 1
GapDetected(seq) ==
    firstPingReceived /\ Gt32(seq, Add32(lastSequenceNumber, U32(1)))

\* (variant: the received packet is counted as missed)
MissedCount_OffByOne(seq) == Sub32(seq, lastSequenceNumber)

\* missed = ping->sequenceNumber - _lastSequenceNumber - 1
MissedCount(seq) == Sub32(Sub32(seq, lastSequenceNumber), U32(1))

\* (variant: the report counts from lastSequence, not from lastSequence + 1)
ActualMissed_OffByOne(seq) ==
    IF Gt32(seq, lastSequenceNumber) THEN Sub32(seq, lastSequenceNumber) ELSE Zero

\* actualMissed of the restoration report
ActualMissed(seq) ==
    LET expectedSeq == Add32(lastSequenceNumber, U32(1))
    IN  IF Gt32(seq, expectedSeq) THEN Sub32(seq, expectedSeq) ELSE U32(0)

\* (variant: > for >=)
FinalPacket_Strict(seq) == Gt32(seq, U32(TEST_PACKET_COUNT))

\* (variant: no packet ends the test)
FinalPacket_Never(seq) == FALSE

\* ping->sequenceNumber >= TEST_PACKET_COUNT
FinalPacket(seq) == Ge32(seq, U32(TEST_PACKET_COUNT))

\* now - then in unsigned long arithmetic: when then is later than now the
\* difference wraps around 2^32
Elapsed(now, then) == Sub32(U32(now), U32(then))

\* (variant: the timeout also runs before the first packet)
TestEndTimedOut_AlsoWaiting(now) ==
    Ge32(Elapsed(now, lastPingTime), U32(TEST_END_TIMEOUT_MS))

\* (variant: the test never ends by timeout)
TestEndTimedOut_Never(now) == FALSE

\* _firstPingReceived && (now - _lastPingTime >= TEST_END_TIMEOUT_MS)
TestEndTimedOut(now) ==
    firstPingReceived /\ Ge32(Elapsed(now, lastPingTime), U32(TEST_END_TIMEOUT_MS))

\* (variant: > for >=)
SignalTimedOut_Strict(now) ==
    /\ firstPingReceived
    /\ ~signalLost
    /\ Gt32(Elapsed(now, lastPingTime), U32(SIGNAL_TIMEOUT_MS))

\* (variant: the loss is declared again on every tick of the silence)
SignalTimedOut_EveryTick(now) ==
    /\ firstPingReceived
    /\ Ge32(Elapsed(now, lastPingTime), U32(SIGNAL_TIMEOUT_MS))

\* _firstPingReceived && !_signalLost, then now - _lastPingTime >= SIGNAL_TIMEOUT_MS
SignalTimedOut(now) ==
    /\ firstPingReceived
    /\ ~signalLost
    /\ Ge32(Elapsed(now, lastPingTime), U32(SIGNAL_TIMEOUT_MS))

\* (variant: the heartbeat does not wait for the interval)
HeartbeatDue_EveryTick(now) == firstPingReceived

\* _firstPingReceived && (now - _lastHeartbeatTime >= HEARTBEAT_INTERVAL_MS)
HeartbeatDue(now) ==
    firstPingReceived /\ Ge32(Elapsed(now, lastHeartbeatTime), U32(HEARTBEAT_INTERVAL_MS))

\* ------------------------------------------------------------------------
\* diagnosticReceiverOnPing(mac, data, len), len = Len(data)
\* ------------------------------------------------------------------------
\* (variant: packets are still counted after the test is complete)
Accepted_AfterComplete(data) == ValidPing(data)

\* the packets that get past the three early returns
Accepted(data) == ~testComplete /\ ValidPing(data)

\* (variant: the sender of the latest packet is stored)
StoredMac_Latest(mac) == mac

\* if (!_transmitterKnown) memcpy(_transmitterMac, mac, 6)
StoredMac(mac) == IF ~transmitterKnown THEN mac ELSE transmitterMac

PingIgnored(data) ==
    /\ UNCHANGED tracker
    /\ out' = << >>
    /\ hist' = hist

PingRecorded(mac, data) ==
    LET now == clock
        seq == PingSequenceNumber(data)
        restored ==
            IF signalLost
            THEN << Event("SignalRestored", now - lastPingTime, ActualMissed(seq)) >>
            ELSE << >>
        first ==
            IF ~firstPingReceived THEN << Event("FirstPing", 0, seq) >> ELSE << >>
    IN  /\ transmitterMac' = StoredMac(mac)
        /\ transmitterKnown' = TRUE
        /\ signalLost' = FALSE
        /\ totalMissed' = IF GapDetected(seq)
                          THEN Add32(totalMissed, MissedCount(seq))
                          ELSE totalMissed
        /\ lastSequenceNumber' = seq
        /\ lastPingTime' = now
        /\ totalReceived' = Add32(totalReceived, U32(1))
        /\ firstPingReceived' = TRUE
        /\ testStartTime' = IF ~firstPingReceived THEN now ELSE testStartTime
        /\ lastHeartbeatTime' = IF ~firstPingReceived THEN now ELSE lastHeartbeatTime
        /\ testComplete' = FinalPacket(seq)
        /\ UNCHANGED << signalLossEvents, summaryPrinted >>
        /\ out' = restored \o first
        /\ hist' = [hist EXCEPT !.n = @ + 1,
                                !.consec = @ /\ (hist.n = 0 \/ (lastSequenceNumber # UINT32_MAX
                                                              /\ seq = Add32(lastSequenceNumber, U32(1))))]

diagnosticReceiverOnPing(mac, data) ==
    /\ IF Accepted(data) THEN PingRecorded(mac, data) ELSE PingIgnored(data)
    /\ last' = [Step("ping", "", Len(data), data[1])
                   EXCEPT !.mac = IF Accepted(data) THEN mac ELSE ZeroMac]
    /\ UNCHANGED << clock, serialIn, pc, loopNow >>

\* ------------------------------------------------------------------------
\* onEspNowReceive: the receive callback forwards the frame. Here the call is
\* serialized with diagnosticReceiverLoop: it runs between two loop passes.
\* ------------------------------------------------------------------------
onEspNowReceive(mac, data) ==
    /\ pc = "idle"
    /\ Accepted(data) => hist.n < MaxPackets
    /\ diagnosticReceiverOnPing(mac, data)
    /\ UNCHANGED arrivals

\* ------------------------------------------------------------------------
\* diagnosticReceiverReset
\* ------------------------------------------------------------------------
\* (variant: the reset also forgets the last sequence number)
diagnosticReceiverReset_All ==
    /\ totalReceived' = Zero
    /\ totalMissed' = Zero
    /\ signalLossEvents' = Zero
    /\ lastSequenceNumber' = Zero
    /\ UNCHANGED << lastPingTime, lastHeartbeatTime, testStartTime,
                    signalLost, firstPingReceived, testComplete, summaryPrinted,
                    transmitterMac, transmitterKnown >>

diagnosticReceiverReset ==
    /\ totalReceived' = U32(0)
    /\ totalMissed' = U32(0)
    /\ signalLossEvents' = U32(0)
    /\ UNCHANGED << lastSequenceNumber, lastPingTime, lastHeartbeatTime, testStartTime,
                    signalLost, firstPingReceived, testComplete, summaryPrinted,
                    transmitterMac, transmitterKnown >>

\* ------------------------------------------------------------------------
\* successRate of diagnosticReceiverPrintStats and printFinalSummary
\* ------------------------------------------------------------------------
\* uint32_t total = _totalReceived + _totalMissed
SuccessTotal == Add32(totalReceived, totalMissed)

\* successRate is 0.0f when total is 0 and (_totalReceived * 100.0f) / total
\* otherwise, a division of floats that does not wrap: the rate is at most 100
\* exactly when _totalReceived is at most total, and it is never negative
SuccessRateInRange == SuccessTotal = Zero \/ Ge32(SuccessTotal, totalReceived)

\* ------------------------------------------------------------------------
\* diagnosticReceiverLoop, first part: summary, timeouts and heartbeat
\* ------------------------------------------------------------------------
\* (variant: the summary is printed by every call after completion)
LoopSummary_EveryCall ==
    /\ testComplete
    /\ summaryPrinted' = TRUE
    /\ out' = << Event("TestComplete", clock - testStartTime, totalReceived) >>
    /\ pc' = "idle"
    /\ hist' = hist
    /\ UNCHANGED << totalReceived, totalMissed, signalLossEvents,
                    lastSequenceNumber, lastPingTime, lastHeartbeatTime, testStartTime,
                    signalLost, firstPingReceived, testComplete,
                    transmitterMac, transmitterKnown >>

\* if (_testComplete) { if (!_summaryPrinted) { printFinalSummary(); ... } return; }
LoopSummary ==
    /\ testComplete
    /\ summaryPrinted' = TRUE
    /\ out' = IF ~summaryPrinted
              THEN << Event("TestComplete", clock - testStartTime, totalReceived) >>
              ELSE << >>
    /\ pc' = "idle"
    /\ hist' = hist
    /\ UNCHANGED << totalReceived, totalMissed, signalLossEvents,
                    lastSequenceNumber, lastPingTime, lastHeartbeatTime, testStartTime,
                    signalLost, firstPingReceived, testComplete,
                    transmitterMac, transmitterKnown >>

\* (variant: the tick that ends the test goes on to the serial commands)
LoopTestEnd_ThenCommands ==
    /\ ~testComplete
    /\ TestEndTimedOut(clock)
    /\ testComplete' = TRUE
    /\ out' = << >>
    /\ pc' = "cmd"
    /\ hist' = hist
    /\ UNCHANGED << totalReceived, totalMissed, signalLossEvents,
                    lastSequenceNumber, lastPingTime, lastHeartbeatTime, testStartTime,
                    signalLost, firstPingReceived, summaryPrinted,
                    transmitterMac, transmitterKnown >>

\* if (_firstPingReceived && (now - _lastPingTime >= TEST_END_TIMEOUT_MS)) {
\*     _testComplete = true; return; }
LoopTestEnd ==
    /\ ~testComplete
    /\ TestEndTimedOut(clock)
    /\ testComplete' = TRUE
    /\ out' = << >>
    /\ pc' = "idle"
    /\ hist' = hist
    /\ UNCHANGED << totalReceived, totalMissed, signalLossEvents,
                    lastSequenceNumber, lastPingTime, lastHeartbeatTime, testStartTime,
                    signalLost, firstPingReceived, summaryPrinted,
                    transmitterMac, transmitterKnown >>

LoopMonitor ==
    LET now == clock
        lost == SignalTimedOut(now)
        beat == HeartbeatDue(now)
    IN  /\ ~testComplete
        /\ ~TestEndTimedOut(now)
        /\ signalLost' = (signalLost \/ lost)
        /\ signalLossEvents' = IF lost THEN Add32(signalLossEvents, U32(1)) ELSE signalLossEvents
        /\ lastHeartbeatTime' = IF beat THEN now ELSE lastHeartbeatTime
        /\ out' = (IF lost
                   THEN << Event("SignalLost", now - lastPingTime, lastSequenceNumber) >>
                   ELSE << >>)
                  \o
                  (IF beat
                   THEN << Event("Progress", now - testStartTime, lastSequenceNumber) >>
                   ELSE << >>)
        /\ pc' = "cmd"
        /\ hist' = [hist EXCEPT !.lost = IF lost THEN @ + 1 ELSE @]
        /\ UNCHANGED << totalReceived, totalMissed,
                        lastSequenceNumber, lastPingTime, testStartTime,
                        firstPingReceived, testComplete, summaryPrinted,
                        transmitterMac, transmitterKnown >>

LoopTimeouts ==
    /\ pc = "idle"
    /\ (LoopSummary \/ LoopTestEnd \/ LoopMonitor)
    /\ last' = Step("tick", "", 0, NoByte)
    /\ UNCHANGED << clock, serialIn, loopNow, arrivals >>

\* ------------------------------------------------------------------------
\* diagnosticReceiverLoop, second part: one serial command
\* ------------------------------------------------------------------------
IsStatsCmd(c) == c \in {"s", "S"}
IsResetCmd(c) == c \in {"r", "R"}
IsHelpCmd(c) == c \in {"h", "H", "?"}

LoopCommands ==
    /\ pc = "cmd"
    /\ pc' = "idle"
    /\ UNCHANGED << clock, loopNow, arrivals >>
    /\ IF serialIn = << >>
       THEN /\ UNCHANGED tracker
            /\ UNCHANGED serialIn
            /\ out' = << >>
            /\ hist' = hist
            /\ last' = Step("cmd", "", 0, NoByte)
       ELSE LET cmd == Head(serialIn)
            IN  /\ serialIn' = Tail(serialIn)
                /\ last' = Step("cmd", cmd, 0, NoByte)
                /\ IF IsResetCmd(cmd)
                   THEN /\ diagnosticReceiverReset
                        /\ out' = << Event("CountersReset", clock, U32(0)) >>
                        /\ hist' = [hist EXCEPT !.reset = TRUE]
                   ELSE /\ UNCHANGED tracker
                        /\ hist' = hist
                        /\ out' = IF IsStatsCmd(cmd)
                                  THEN << Event("Stats", clock - testStartTime, totalReceived) >>
                                  ELSE IF IsHelpCmd(cmd)
                                  THEN << Event("Help", 0, U32(0)) >>
                                  ELSE << >>

diagnosticReceiverLoop == LoopTimeouts \/ LoopCommands

\* ------------------------------------------------------------------------
\* Environment: the clock and the operator's keyboard
\* ------------------------------------------------------------------------
\* millis() moves on to t
ClockMoves(t) ==
    /\ t > clock
    /\ clock' = t
    /\ out' = << >>
    /\ last' = Step("advance", "", 0, NoByte)
    /\ UNCHANGED << tracker, serialIn, pc, loopNow, hist, arrivals >>

\* time passes between two loop passes
Advance(t) ==
    /\ pc = "idle"
    /\ ClockMoves(t)

\* a character arrives in the serial receive buffer
SerialArrives(c) ==
    /\ serialIn' = Append(serialIn, c)
    /\ out' = << >>
    /\ last' = Step("serial", "", 0, NoByte)
    /\ UNCHANGED << tracker, clock, pc, loopNow, hist, arrivals >>

SerialInput(c) ==
    /\ Len(serialIn) < MaxSerial
    /\ SerialArrives(c)

Next ==
    \/ \E mac \in Macs, data \in Frames : onEspNowReceive(mac, data)
    \/ diagnosticReceiverLoop
    \/ \E t \in Timeline : Advance(t)
    \/ \E c \in Chars : SerialInput(c)

Spec == Init /\ [][Next]_vars

\* ------------------------------------------------------------------------
\* The run to its end: the sender falls silent before the last point of the
\* timeline, the host keeps calling diagnosticReceiverLoop (loop() of the
\* Arduino core runs forever) and time keeps passing. Of the keys the operator
\* types the reset command, the one that changes state.
\* ------------------------------------------------------------------------
LastTime == HEARTBEAT_INTERVAL_MS

PacketBeforeSilence(mac, data) ==
    /\ clock < LastTime
    /\ onEspNowReceive(mac, data)

NextLive ==
    \/ \E mac \in Macs, data \in Frames : PacketBeforeSilence(mac, data)
    \/ diagnosticReceiverLoop
    \/ \E t \in Timeline : Advance(t)
    \/ SerialInput("R")

SpecLive ==
    /\ Init
    /\ [][NextLive]_vars
    /\ WF_vars(diagnosticReceiverLoop)
    /\ SF_vars(\E t \in Timeline : Advance(t))

\* ------------------------------------------------------------------------
\* The receive callback as the ESP-NOW stack calls it: from its own task, with
\* no lock, so that it runs between any two statements of
\* diagnosticReceiverLoop. The loop is taken statement by statement: pc is the
\* line of the next one and loopNow holds its local variable now.
\* ------------------------------------------------------------------------
\* lines 126-134: the summary and return, or now = millis()
LoopReadClock ==
    /\ pc = "idle"
    /\ last' = Step("tick", "", 0, NoByte)
    /\ UNCHANGED << clock, serialIn, arrivals >>
    /\ \/ LoopSummary /\ UNCHANGED loopNow
       \/ /\ ~testComplete
          /\ loopNow' = clock
          /\ pc' = "L138"
          /\ out' = << >>
          /\ UNCHANGED << tracker, hist >>

\* lines 138-141: the test-end timeout, compared with the value read at line 134
LoopCheckTestEnd ==
    /\ pc = "L138"
    /\ last' = Step("tick", "", 0, NoByte)
    /\ testComplete' = (testComplete \/ TestEndTimedOut(loopNow))
    /\ pc' = IF TestEndTimedOut(loopNow) THEN "idle" ELSE "L144"
    /\ out' = << >>
    /\ UNCHANGED << totalReceived, totalMissed, signalLossEvents,
                    lastSequenceNumber, lastPingTime, lastHeartbeatTime, testStartTime,
                    signalLost, firstPingReceived, summaryPrinted,
                    transmitterMac, transmitterKnown,
                    clock, serialIn, loopNow, hist, arrivals >>

\* lines 144-154: the signal timeout (the silence printed is the unsigned
\* difference: loopNow - lastPingTime + 2^32 when the packet came after line 134)
LoopCheckSignal ==
    LET lost == SignalTimedOut(loopNow)
    IN  /\ pc = "L144"
        /\ last' = Step("tick", "", 0, NoByte)
        /\ signalLost' = (signalLost \/ lost)
        /\ signalLossEvents' = IF lost THEN Add32(signalLossEvents, U32(1))
                                       ELSE signalLossEvents
        /\ out' = IF lost
                  THEN << Event("SignalLost", loopNow - lastPingTime, lastSequenceNumber) >>
                  ELSE << >>
        /\ pc' = "L157"
        /\ hist' = [hist EXCEPT !.lost = IF lost THEN @ + 1 ELSE @]
        /\ UNCHANGED << totalReceived, totalMissed,
                        lastSequenceNumber, lastPingTime, lastHeartbeatTime, testStartTime,
                        firstPingReceived, testComplete, summaryPrinted,
                        transmitterMac, transmitterKnown,
                        clock, serialIn, loopNow, arrivals >>

\* lines 157-174: the heartbeat
LoopCheckHeartbeat ==
    LET beat == HeartbeatDue(loopNow)
    IN  /\ pc = "L157"
        /\ last' = Step("tick", "", 0, NoByte)
        /\ lastHeartbeatTime' = IF beat THEN loopNow ELSE lastHeartbeatTime
        /\ out' = IF beat
                  THEN << Event("Progress", loopNow - testStartTime, lastSequenceNumber) >>
                  ELSE << >>
        /\ pc' = "cmd"
        /\ UNCHANGED << totalReceived, totalMissed, signalLossEvents,
                        lastSequenceNumber, lastPingTime, testStartTime,
                        signalLost, firstPingReceived, testComplete, summaryPrinted,
                        transmitterMac, transmitterKnown,
                        clock, serialIn, loopNow, hist, arrivals >>

\* the callback, at any position of the loop
PacketAnytime(mac, data) ==
    /\ Accepted(data) => hist.n < MaxPackets
    /\ diagnosticReceiverOnPing(mac, data)
    /\ UNCHANGED arrivals

NextRace ==
    \/ LoopReadClock
    \/ LoopCheckTestEnd
    \/ LoopCheckSignal
    \/ LoopCheckHeartbeat
    \/ LoopCommands
    \/ \E mac \in Macs, data \in Frames : PacketAnytime(mac, data)
    \/ \E t \in Timeline : ClockMoves(t)

SpecRace == Init /\ [][NextRace]_vars

\* ------------------------------------------------------------------------
\* The operator at the keyboard: keys are typed ahead, recognized or not, while
\* one sender transmits an ordinary packet or the final one.
\* ------------------------------------------------------------------------
Keys == {"S", "R", "H", "x"}

KeyFrames == { PingFrame(U32(1), U32(77)), PingFrame(U32(TEST_PACKET_COUNT), U32(77)) }

KeyTyped(c) ==
    /\ Len(serialIn) < MaxKeys
    /\ SerialArrives(c)

NextKeys ==
    \/ \E data \in KeyFrames : onEspNowReceive(MacA, data)
    \/ diagnosticReceiverLoop
    \/ \E t \in Timeline : Advance(t)
    \/ \E c \in Keys : KeyTyped(c)

SpecKeys == Init /\ [][NextKeys]_vars

\* ------------------------------------------------------------------------
\* A burst: packets of one sender that arrive within the same millisecond,
\* in any order and with repetitions, while the loop keeps running. The
\* accepted sequence numbers are recorded in order of arrival.
\* ------------------------------------------------------------------------
PacketInBurst(data) ==
    /\ pc = "idle"
    /\ Accepted(data) => Len(arrivals) < MaxBurst
    /\ diagnosticReceiverOnPing(MacA, data)
    /\ arrivals' = IF Accepted(data)
                   THEN Append(arrivals, PingSequenceNumber(data))
                   ELSE arrivals

NextBurst ==
    \/ \E data \in GoodFrames : PacketInBurst(data)
    \/ diagnosticReceiverLoop

SpecBurst == Init /\ [][NextBurst]_vars

\* ------------------------------------------------------------------------
\* Vocabulary of the properties
\* ------------------------------------------------------------------------
\* the step taken is a call of diagnosticReceiverOnPing / of the first / of the
\* second part of diagnosticReceiverLoop
PingStep == last'.op = "ping"
TickStep == last'.op = "tick"
CmdStep == last'.op = "cmd"

\* the frame handed to the call has the size of a ping record and the marker byte
FrameValid == last'.len = PingMessageSize /\ last'.magic = PING_MAGIC

\* the call is handed a valid frame while the test is Running
AcceptedStep == PingStep /\ ~testComplete /\ FrameValid

\* the events a step printed
Emitted(o, t) == \E i \in 1..Len(o) : o[i].type = t
Count(o, t) == Cardinality({ i \in 1..Len(o) : o[i].type = t })

\* the amount a step added to a uint32_t counter
Added(after, before) == Sub32(after, before)

\* the sequence number is lastSequence + 1 + gap for some gap >= 1 (no wrap)
BeyondNext(seq, lastSeq) == lastSeq # UINT32_MAX /\ Gt32(seq, Add32(lastSeq, One))

\* ------------------------------------------------------------------------
\* C1: every accepted packet after the first whose sequence number is
\* lastSequence + 1 + gap with gap >= 1 adds exactly gap to totalMissed (as a
\* 32-bit counter): lastSequence + 1 + (what was added) is the packet's sequence
\* number.  The step is any accepted one: in Ok, in Lost, after a reset.
\* ------------------------------------------------------------------------
C1_GapAdded ==
    [][ (AcceptedStep /\ firstPingReceived
         /\ BeyondNext(lastSequenceNumber', lastSequenceNumber))
        => /\ Add32(Add32(lastSequenceNumber, One), Added(totalMissed', totalMissed))
                = lastSequenceNumber'
           /\ Ge32(Added(totalMissed', totalMissed), One) ]_vars

\* a packet with gap 8 restored the signal after a reset: seq 1, silence, R, seq 10
C1_Witness ==
    /\ last.op = "ping"
    /\ hist.reset
    /\ Emitted(out, "SignalRestored")
    /\ lastSequenceNumber = U32(10)
    /\ totalMissed = U32(8)
    /\ totalReceived = One

\* ------------------------------------------------------------------------
\* C2: every accepted packet adds exactly 1 to totalReceived; and while the
\* accepted packets' sequence numbers have increased by exactly 1 each (and no
\* reset was executed), totalMissed is 0 and totalReceived is their number.
\* ------------------------------------------------------------------------
C2_ReceivedCounted ==
    /\ [][ AcceptedStep => totalReceived' = Add32(totalReceived, One) ]_vars
    /\ []( (hist.consec /\ ~hist.reset)
           => (totalMissed = Zero /\ totalReceived = U32(hist.n)) )

\* two accepted packets, seq 1 then seq 2
C2_Witness ==
    /\ last.op = "ping"
    /\ hist.consec
    /\ ~hist.reset
    /\ hist.n = 2
    /\ totalReceived = U32(2)

C5_CompleteFrozen ==
    [][ testComplete
        => /\ testComplete'
           /\ UNCHANGED << totalReceived, totalMissed, signalLossEvents,
                           lastSequenceNumber, lastPingTime,
                           signalLost, firstPingReceived,
                           transmitterMac, transmitterKnown >>
           /\ \A i \in 1..Len(out') :
                out'[i].type \notin {"SignalLost", "SignalRestored", "FirstPing", "Progress"} ]_vars

\* a valid frame was handed over after completion, and the summary was printed
C5_Witness ==
    /\ testComplete
    /\ summaryPrinted
    /\ last.op = "ping"
    /\ last.len = PingMessageSize
    /\ last.magic = PING_MAGIC

\* ------------------------------------------------------------------------
\* C6: an accepted packet sets the test Complete in the same call exactly when
\* its sequence number is >= TEST_PACKET_COUNT, and that call has counted the
\* packet in totalReceived and its gap, if any, in totalMissed.
\* ------------------------------------------------------------------------
C6_FinalPacketCompletes ==
    [][ AcceptedStep
        => /\ testComplete' <=> Ge32(lastSequenceNumber', U32(TEST_PACKET_COUNT))
           /\ totalReceived' = Add32(totalReceived, One)
           /\ IF firstPingReceived /\ BeyondNext(lastSequenceNumber', lastSequenceNumber)
              THEN Add32(Add32(lastSequenceNumber, One), Added(totalMissed', totalMissed))
                     = lastSequenceNumber'
              ELSE totalMissed' = totalMissed ]_vars

\* the packet with sequence number TEST_PACKET_COUNT completed the test and its
\* gap was counted
C6_Witness ==
    /\ last.op = "ping"
    /\ testComplete
    /\ ~summaryPrinted
    /\ lastSequenceNumber = U32(TEST_PACKET_COUNT)
    /\ totalReceived = U32(2)
    /\ totalMissed # Zero

\* ------------------------------------------------------------------------
\* C7: a tick that runs while Running sets the test Complete exactly when at
\* least one packet has been accepted and now - lastPacketTime >=
\* TEST_END_TIMEOUT_MS; as long as no packet has been accepted the test is
\* Running, the signal is not lost and no loss was ever declared.
\* ------------------------------------------------------------------------
C7_TimeoutCompletes ==
    /\ [][ (TickStep /\ ~testComplete)
           => (testComplete'
               <=> (hist.n >= 1 /\ clock - lastPingTime >= TEST_END_TIMEOUT_MS)) ]_vars
    /\ []( hist.n = 0
           => /\ ~testComplete
              /\ ~signalLost
              /\ ~firstPingReceived
              /\ signalLossEvents = Zero
              /\ hist.lost = 0 )

\* a tick has run in state Waiting long after both timeouts
C7_Witness ==
    /\ last.op = "tick"
    /\ hist.n = 0
    /\ clock >= HEARTBEAT_INTERVAL_MS
    /\ ~testComplete

\* ------------------------------------------------------------------------
\* C8: the reset command zeroes totalReceived, totalMissed and signalLossEvents
\* and leaves lastSequence, senderId, the lost flag, the first-ping flag,
\* lastPacketTime and the test-completion flag unchanged; the packet accepted
\* right after a reset has its gap counted from the lastSequence of before the
\* reset, so that totalMissed is then that gap.
\* ------------------------------------------------------------------------
C8_ResetFrame ==
    /\ [][ (CmdStep /\ last'.cmd \in {"r", "R"})
           => /\ totalReceived' = Zero
              /\ totalMissed' = Zero
              /\ signalLossEvents' = Zero
              /\ UNCHANGED << lastSequenceNumber, transmitterMac, transmitterKnown,
                              signalLost, firstPingReceived, lastPingTime,
                              testComplete >> ]_vars
    /\ [][ (AcceptedStep /\ last.op = "cmd" /\ last.cmd \in {"r", "R"}
            /\ firstPingReceived
            /\ BeyondNext(lastSequenceNumber', lastSequenceNumber))
           => /\ Add32(Add32(lastSequenceNumber, One), totalMissed') = lastSequenceNumber'
              /\ totalReceived' = One ]_vars

\* a reset has just run in state Lost, after packets 1 and 10 from MacB
C8_Witness ==
    /\ last.op = "cmd"
    /\ last.cmd = "R"
    /\ hist.n = 2
    /\ signalLost
    /\ lastSequenceNumber = U32(10)
    /\ transmitterMac = MacB
    /\ totalReceived = Zero
    /\ totalMissed = Zero
    /\ signalLossEvents = Zero

\* ------------------------------------------------------------------------
\* C9: a frame whose length is not that of a ping record or whose first byte is
\* not 0xAA changes nothing: senderId, signal state, lastSequence,
\* lastPacketTime, the three counters and the test-completion flag.
\* ------------------------------------------------------------------------
C9_MalformedIgnored ==
    [][ (PingStep /\ ~FrameValid)
        => /\ UNCHANGED tracker
           /\ out' = << >> ]_vars

\* a malformed frame was handed over in state Lost
C9_Witness ==
    /\ last.op = "ping"
    /\ (last.len # PingMessageSize \/ last.magic # PING_MAGIC)
    /\ signalLost
    /\ ~testComplete

\* ------------------------------------------------------------------------
\* C10: an accepted packet that arrives in state Lost goes to Ok and emits one
\* SignalRestored whose restorationGap is max(0, seq - (lastSequence + 1)), and
\* the amount the packet adds to totalMissed is that restorationGap.
\* ------------------------------------------------------------------------
C10_RestorationGap ==
    [][ (AcceptedStep /\ signalLost)
        => /\ ~signalLost'
           /\ Count(out', "SignalRestored") = 1
           /\ lastSequenceNumber # UINT32_MAX
           /\ \A i \in 1..Len(out') :
                out'[i].type = "SignalRestored"
                => /\ out'[i].n = Added(totalMissed', totalMissed)
                   /\ out'[i].ms = clock - lastPingTime
                   /\ IF Gt32(lastSequenceNumber', Add32(lastSequenceNumber, One))
                      THEN Add32(Add32(lastSequenceNumber, One), out'[i].n)
                             = lastSequenceNumber'
                      ELSE out'[i].n = Zero ]_vars

\* lastSequence 1, silence, then seq 10: restorationGap 8 and totalMissed 8
C10_Witness ==
    /\ last.op = "ping"
    /\ ~hist.reset
    /\ hist.n = 2
    /\ lastSequenceNumber = U32(10)
    /\ totalMissed = U32(8)
    /\ \E i \in 1..Len(out) : out[i].type = "SignalRestored" /\ out[i].n = U32(8)

\* ------------------------------------------------------------------------
\* Vocabulary of the properties about bursts
\* ------------------------------------------------------------------------
\* the first and the highest accepted sequence number
FirstArrival == arrivals[1]
HighestArrival ==
    CHOOSE s \in { arrivals[i] : i \in 1..Len(arrivals) } :
        \A i \in 1..Len(arrivals) : Ge32(s, arrivals[i])

\* how many sequence numbers from the first to the highest accepted one were
\* never received (a number below 2^32)
NeverReceived ==
    LET got == { s \in { arrivals[i] : i \in 1..Len(arrivals) } :
                   Ge32(s, FirstArrival) /\ Ge32(HighestArrival, s) }
    IN  Sub32(Add32(Sub32(HighestArrival, FirstArrival), One), U32(Cardinality(got)))

\* ------------------------------------------------------------------------
\* C11: an accepted packet whose sequence number is not greater than
\* lastSequence + 1 records no gap, and after any sequence of accepted packets
\* (duplicates and out-of-order arrivals included) totalMissed does not exceed
\* the number of sequence numbers between the first and the highest accepted
\* one that were never received.
\* ------------------------------------------------------------------------
C11_MissedBounded ==
    /\ [][ (AcceptedStep /\ ~BeyondNext(lastSequenceNumber', lastSequenceNumber))
            => totalMissed' = totalMissed ]_vars
    /\ []( arrivals # << >> => Ge32(NeverReceived, totalMissed) )

\* ------------------------------------------------------------------------
\* C12: totalReceived and totalMissed never decrease across a step of
\* diagnosticReceiverOnPing or of diagnosticReceiverLoop, whatever 32-bit
\* sequence numbers the accepted packets carry; only the reset command lowers
\* them.
\* ------------------------------------------------------------------------
C12_CountersMonotone ==
    [][ (PingStep \/ TickStep \/ (CmdStep /\ ~IsResetCmd(last'.cmd)))
        => /\ Ge32(totalReceived', totalReceived)
           /\ Ge32(totalMissed', totalMissed) ]_vars

\* ------------------------------------------------------------------------
\* C13: in every reachable state the success rate that the statistics and the
\* final summary report lies in the range [0, 100].
\* ------------------------------------------------------------------------
C13_RateInRange == SuccessRateInRange

\* ------------------------------------------------------------------------
\* C14: a call of diagnosticReceiverLoop that directly follows another call,
\* with the same clock value and no packet or key in between.
\* ------------------------------------------------------------------------
\* the step is the first part of diagnosticReceiverLoop and the step before it
\* ended a call of diagnosticReceiverLoop
RepeatTick == TickStep /\ pc = "idle" /\ last.op \in {"tick", "cmd"}

C15_FirstPacket ==
    /\ [][ (AcceptedStep /\ ~firstPingReceived)
            => /\ firstPingReceived' /\ ~signalLost'
               /\ testStartTime' = clock
               /\ transmitterMac' = last'.mac /\ transmitterKnown'
               /\ totalMissed = Zero /\ totalMissed' = Zero
               /\ Count(out', "FirstPing") = 1 ]_vars
    /\ [][ Emitted(out', "FirstPing") => (AcceptedStep /\ ~firstPingReceived) ]_vars
    /\ [][ firstPingReceived
            => (firstPingReceived' /\ UNCHANGED << testStartTime, transmitterMac >>) ]_vars

\* a second packet, from another sender and at a later time than the first,
\* has been accepted
C15_Witness ==
    /\ last.op = "ping"
    /\ hist.n = 2
    /\ last.mac \in Macs
    /\ last.mac # transmitterMac
    /\ transmitterMac \in Macs
    /\ lastPingTime > testStartTime
    /\ out = << >>

\* ------------------------------------------------------------------------
\* C16: the final summary is printed exactly once per run: only by a call of
\* diagnosticReceiverLoop that finds the test already Complete (never while the
\* test is Running), by the first such call, and by no later call.
\* ------------------------------------------------------------------------
C16_SummaryOnce ==
    /\ [][ Emitted(out', "TestComplete")
            => /\ TickStep
               /\ testComplete /\ ~summaryPrinted
               /\ summaryPrinted'
               /\ Count(out', "TestComplete") = 1 ]_vars
    /\ [][ (TickStep /\ testComplete /\ ~summaryPrinted)
            => Emitted(out', "TestComplete") ]_vars
    /\ [][ summaryPrinted
            => (summaryPrinted' /\ ~Emitted(out', "TestComplete")) ]_vars
    /\ []( summaryPrinted => testComplete )

\* diagnosticReceiverLoop was called after the summary had been printed, and
\* printed nothing
C16_Witness ==
    /\ last.op = "tick"
    /\ testComplete
    /\ summaryPrinted
    /\ out = << >>

\* ------------------------------------------------------------------------
\* C17: once a packet has been accepted and the sender then falls silent while
\* diagnosticReceiverLoop keeps being called and time passes, the test
\* eventually becomes Complete and the final summary is eventually printed;
\* and the test leaves Running only by an accepted packet whose sequence number
\* has reached TEST_PACKET_COUNT or by a tick that finds no packet accepted for
\* TEST_END_TIMEOUT_MS, so packets below TEST_PACKET_COUNT that keep arriving
\* less than TEST_END_TIMEOUT_MS apart keep it Running.
\* ------------------------------------------------------------------------
C17_EventuallyComplete ==
    /\ firstPingReceived ~> (testComplete /\ summaryPrinted)
    /\ [][ (~testComplete /\ testComplete')
            => \/ AcceptedStep /\ Ge32(lastSequenceNumber', U32(TEST_PACKET_COUNT))
               \/ /\ TickStep
                  /\ firstPingReceived
                  /\ clock - lastPingTime >= TEST_END_TIMEOUT_MS ]_vars

\* the test was ended by the timeout, not by the final packet, and the summary
\* has been printed
C17_Witness ==
    /\ testComplete
    /\ summaryPrinted
    /\ Lt32(lastSequenceNumber, U32(TEST_PACKET_COUNT))
    /\ clock - lastPingTime >= TEST_END_TIMEOUT_MS
    /\ Emitted(out, "TestComplete")

\* ------------------------------------------------------------------------
\* C18: when the receive callback can run between any two statements of
\* diagnosticReceiverLoop, the loop still sets the test Complete by timeout
\* only when TEST_END_TIMEOUT_MS, and declares the signal lost only when
\* SIGNAL_TIMEOUT_MS, have really passed since the last accepted packet.
\* ------------------------------------------------------------------------
C18_NoSpuriousTimeout ==
    /\ [][ (TickStep /\ ~testComplete /\ testComplete')
            => clock - lastPingTime >= TEST_END_TIMEOUT_MS ]_vars
    /\ [][ (TickStep /\ ~signalLost /\ signalLost')
            => clock - lastPingTime >= SIGNAL_TIMEOUT_MS ]_vars

\* ------------------------------------------------------------------------
\* C19: whenever the test is Running, lastSequence is below TEST_PACKET_COUNT,
\* so for every packet that is processed lastSequence + 1 of the gap and of the
\* restoration computation does not wrap around 2^32.
\* ------------------------------------------------------------------------
C19_LastSequenceBelowCount ==
    /\ []( ~testComplete => Lt32(lastSequenceNumber, U32(TEST_PACKET_COUNT)) )
    /\ [][ AcceptedStep
            => /\ lastSequenceNumber # UINT32_MAX
               /\ Gt32(Add32(lastSequenceNumber, One), lastSequenceNumber) ]_vars

\* a second packet was processed while the test was Running and the test is
\* still Running
C19_Witness ==
    /\ last.op = "ping"
    /\ last.len = PingMessageSize
    /\ last.magic = PING_MAGIC
    /\ hist.n = 2
    /\ ~testComplete
    /\ lastSequenceNumber = U32(10)

\* ------------------------------------------------------------------------
\* C20: a pending command character is read only by the command part of a
\* call of diagnosticReceiverLoop that found the test Running and did not end
\* it by timeout; once the test is Complete no call reads a character, so the
\* counters are not reset by a command any more; while the test is Running a
\* call reads one character at most, and a character that is no command
\* changes no state and prints nothing.
\* ------------------------------------------------------------------------
C20_CommandsWhileRunning ==
    /\ [][ serialIn' # serialIn
            => \/ Len(serialIn') = Len(serialIn) + 1 /\ last'.op = "serial"
               \/ /\ CmdStep
                  /\ ~testComplete /\ ~testComplete'
                  /\ serialIn # << >>
                  /\ serialIn' = Tail(serialIn)
                  /\ last'.cmd = Head(serialIn) ]_vars
    /\ [][ testComplete
            => /\ Len(serialIn') >= Len(serialIn)
               /\ UNCHANGED << totalReceived, totalMissed, signalLossEvents >>
               /\ ~Emitted(out', "CountersReset") ]_vars
    /\ [][ (TickStep /\ testComplete') => (pc' = "idle" /\ serialIn' = serialIn) ]_vars
    /\ [][ (CmdStep /\ ~IsStatsCmd(last'.cmd) /\ ~IsResetCmd(last'.cmd)
                    /\ ~IsHelpCmd(last'.cmd))
            => (UNCHANGED tracker /\ out' = << >>) ]_vars

\* diagnosticReceiverLoop was called after the test was Complete and the
\* summary printed, with two characters pending, the reset command first, and
\* both are still pending
C20_Witness ==
    /\ last.op = "tick"
    /\ testComplete
    /\ summaryPrinted
    /\ out = << >>
    /\ Len(serialIn) = 2
    /\ serialIn[1] = "R"
    /\ totalReceived # Zero

====
